---- MODULE Spec2Model ----
(***************************************************************************)
(* Model of slots.py: the table SLOTS of Slot records, the table           *)
(* COMPARE_OPS of CompareOp records, and the two accessors                 *)
(* GetBinaryOperatorMapping() and GetCompareFunctionMapping() that build a *)
(* dictionary from them.                                                   *)
(*                                                                         *)
(* Python values: a string is a TLA+ string, an optional value is None     *)
(* (the empty tuple) or Some(v) (the one-element tuple), a list is a       *)
(* sequence, a dict is a function from its key set, and a dict object on   *)
(* the heap is an element of binDicts / cmpDicts, named by its position.   *)
(***************************************************************************)
EXTENDS Integers, Sequences, FiniteSets, TLC

VARIABLES
  slots,        \* the module-level list SLOTS
  compare_ops,  \* the module-level list COMPARE_OPS
  binDicts,     \* heap: the dict objects built by GetBinaryOperatorMapping()
  cmpDicts,     \* heap: the dict objects built by GetCompareFunctionMapping()
  binRet,       \* history of the returns of GetBinaryOperatorMapping()
  cmpRet,       \* history of the returns of GetCompareFunctionMapping()
  nMut          \* number of caller mutations of returned dicts so far

vars == <<slots, compare_ops, binDicts, cmpDicts, binRet, cmpRet, nMut>>

\* Bounds of the model.
MaxCalls == 2
MaxMutations == 2

----------------------------------------------------------------------------
\* Python values.

None == <<>>
Some(v) == <<v>>

\* bool(x) of an optional string: None and "" are false.
Truthy(o) == o # None /\ Len(o[1]) > 0

\* s[n:] of a string.
SliceFrom(s, n) == SubSeq(s, n + 1, Len(s))

EmptyDict == [k \in {} |-> ""]

\* d[k] = v
SetItem(d, k, v) == [x \in DOMAIN d \cup {k} |-> IF x = k THEN v ELSE d[x]]

\* del d[k]
DelItem(d, k) == [x \in DOMAIN d \ {k} |-> d[x]]

\* The last position of a non-empty set of list positions.
Last(S) == CHOOSE i \in S : \A j \in S : j <= i

NoException == ""
TypeError == "TypeError"

----------------------------------------------------------------------------
\* class Slot

\* A variant of the constructor that leaves c_name unset.
Slot_NoCName(python_name, c_name, function_type, index, opcode, python_version) ==
  [python_name |-> python_name, c_name |-> "", function_type |-> function_type,
   index |-> index, opcode |-> opcode, python_version |-> python_version]

Slot(python_name, c_name, function_type, index, opcode, python_version) ==
  [python_name |-> python_name, c_name |-> c_name, function_type |-> function_type,
   index |-> index, opcode |-> opcode, python_version |-> python_version]

SLOTS ==
  <<
    Slot("__new__", "tp_new", "new", None, None, "*"),
    Slot("__init__", "tp_init", "init", None, None, "*"),
    Slot("__str__", "tp_print", "print", None, None, "*"),
    Slot("__repr__", "tp_repr", "repr", None, None, "*"),
    Slot("__hash__", "tp_hash", "hash", None, None, "*"),
    Slot("__call__", "tp_call", "call", None, None, "*"),
    Slot("__getattribute__", "tp_getattro", "getattro", None, None, "*"),
    Slot("__getattr__", "tp_getattro", "getattro", None, None, "*"),
    Slot("__setattr__", "tp_setattro", "setattro", None, None, "*"),
    Slot("__delattr__", "tp_setattro", "setattro", None, None, "*"),
    Slot("__iter__", "tp_iter", "unary", None, None, "*"),
    Slot("next", "tp_iternext", "next", None, None, "2"),
    Slot("__next__", "tp_iternext", "next", None, None, "3"),
    Slot("__get__", "tp_descr_get", "descr_get", None, None, "*"),
    Slot("__set__", "tp_descr_set", "descr_set", None, None, "*"),
    Slot("__delete__", "tp_descr_set", "descr_delete", None, None, "*"),
    Slot("__del__", "tp_del", "destructor", None, None, "*"),
    Slot("__cmp__", "tp_compare", "cmp", None, None, "2"),
    Slot("__lt__", "tp_richcompare", "richcmpfunc", None, None, "*"),
    Slot("__le__", "tp_richcompare", "richcmpfunc", None, None, "*"),
    Slot("__eq__", "tp_richcompare", "richcmpfunc", None, None, "*"),
    Slot("__ne__", "tp_richcompare", "richcmpfunc", None, None, "*"),
    Slot("__gt__", "tp_richcompare", "richcmpfunc", None, None, "*"),
    Slot("__ge__", "tp_richcompare", "richcmpfunc", None, None, "*"),
    Slot("__richcompare__", "tp_richcompare", "richcmpfunc", None, None, "*"),
    Slot("__add__", "nb_add", "binary_nb", Some(0), Some("BINARY_ADD"), "*"),
    Slot("__radd__", "nb_add", "binary_nb", Some(1), None, "*"),
    Slot("__sub__", "nb_subtract", "binary_nb", Some(0), Some("BINARY_SUBTRACT"), "*"),
    Slot("__rsub__", "nb_subtract", "binary_nb", Some(1), None, "*"),
    Slot("__mul__", "nb_multiply", "binary_nb", Some(0), None, "*"),
    Slot("__rmul__", "nb_multiply", "binary_nb", Some(1), None, "*"),
    Slot("__div__", "nb_divide", "binary_nb", Some(0), Some("BINARY_DIVIDE"), "*"),
    Slot("__rdiv__", "nb_divide", "binary_nb", Some(1), None, "*"),
    Slot("__mod__", "nb_remainder", "binary_nb", Some(0), Some("BINARY_MODULO"), "*"),
    Slot("__rmod__", "nb_remainder", "binary_nb", Some(1), None, "*"),
    Slot("__divmod__", "nb_divmod", "binary_nb", Some(0), None, "*"),
    Slot("__rdivmod__", "nb_divmod", "binary_nb", Some(1), None, "*"),
    Slot("__lshift__", "nb_lshift", "binary_nb", Some(0), Some("BINARY_LSHIFT"), "*"),
    Slot("__rlshift__", "nb_lshift", "binary_nb", Some(1), None, "*"),
    Slot("__rshift__", "nb_rshift", "binary_nb", Some(0), Some("BINARY_RSHIFT"), "*"),
    Slot("__rrshift__", "nb_rshift", "binary_nb", Some(1), None, "*"),
    Slot("__and__", "nb_and", "binary_nb", Some(0), Some("BINARY_AND"), "*"),
    Slot("__rand__", "nb_and", "binary_nb", Some(1), None, "*"),
    Slot("__xor__", "nb_xor", "binary_nb", Some(0), Some("BINARY_XOR"), "*"),
    Slot("__rxor__", "nb_xor", "binary_nb", Some(1), None, "*"),
    Slot("__or__", "nb_or", "binary_nb", Some(0), Some("BINARY_OR"), "*"),
    Slot("__ror__", "nb_or", "binary_nb", Some(1), None, "*"),
    Slot("__floordiv__", "nb_floor_divide", "binary_nb", Some(0), Some("BINARY_FLOOR_DIVIDE"), "*"),
    Slot("__rfloordiv__", "nb_floor_divide", "binary_nb", Some(1), None, "*"),
    Slot("__truediv__", "nb_true_divide", "binary_nb", Some(0), Some("BINARY_TRUE_DIVIDE"), "*"),
    Slot("__rtruediv__", "nb_true_divide", "binary_nb", Some(1), None, "*"),
    Slot("__pow__", "nb_power", "ternary", None, Some("BINARY_POWER"), "*"),
    Slot("__rpow__", "nb_power", "ternary", None, None, "*"),
    Slot("__neg__", "nb_negative", "unary", None, Some("UNARY_NEGATIVE"), "*"),
    Slot("__pos__", "nb_positive", "unary", None, Some("UNARY_POSITIVE"), "*"),
    Slot("__abs__", "nb_absolute", "unary", None, None, "*"),
    Slot("__nonzero__", "nb_nonzero", "inquiry", None, None, "*"),
    Slot("__invert__", "nb_invert", "unary", None, Some("UNARY_INVERT"), "*"),
    Slot("__coerce__", "nb_coerce", "coercion", None, None, "*"),
    Slot("__int__", "nb_int", "unary", None, None, "*"),
    Slot("__long__", "nb_long", "unary", None, None, "*"),
    Slot("__float__", "nb_float", "unary", None, None, "*"),
    Slot("__oct__", "nb_oct", "unary", None, None, "*"),
    Slot("__hex__", "nb_hex", "unary", None, None, "*"),
    Slot("__iadd__", "nb_inplace_add", "binary", None, Some("INPLACE_ADD"), "*"),
    Slot("__isub__", "nb_inplace_subtract", "binary", None, Some("INPLACE_SUBTRACT"), "*"),
    Slot("__imul__", "nb_inplace_multiply", "binary", None, Some("INPLACE_MUL"), "*"),
    Slot("__idiv__", "nb_inplace_divide", "binary", None, Some("INPLACE_DIV"), "*"),
    Slot("__irem__", "nb_inplace_remainder", "binary", None, Some("INPLACE_MODULO"), "*"),
    Slot("__ipow__", "nb_inplace_power", "ternary", None, Some("INPLACE_POWER"), "*"),
    Slot("__ilshift__", "nb_inplace_lshift", "binary", None, Some("INPLACE_LSHIFT"), "*"),
    Slot("__irshift__", "nb_inplace_rshift", "binary", None, Some("INPLACE_RSHIFT"), "*"),
    Slot("__iand__", "nb_inplace_and", "binary", None, Some("INPLACE_AND"), "*"),
    Slot("__ixor__", "nb_inplace_xor", "binary", None, Some("INPLACE_XOR"), "*"),
    Slot("__ior__", "nb_inplace_or", "binary", None, Some("INPLACE_OR"), "*"),
    Slot("__ifloordiv__", "nb_inplace_floor_divide", "binary", None, Some("INPLACE_FLOOR_DIVIDE"), "*"),
    Slot("__itruediv__", "nb_inplace_true_divide", "binary", None, Some("INPLACE_TRUE_DIVIDE"), "*"),
    Slot("__index__", "nb_index", "unary", None, None, "*"),
    Slot("__getitem__", "mp_subscript", "binary", None, Some("BINARY_SUBSCR"), "*"),
    Slot("__delitem__", "mp_ass_subscript", "objobjargproc", Some(0), None, "*"),
    Slot("__setitem__", "mp_ass_subscript", "objobjargproc", Some(1), None, "*"),
    Slot("__len__", "mp_length", "len", None, None, "*"),
    Slot("__contains__", "sq_contains", "objobjproc", None, None, "*"),
    Slot("__add__", "sq_concat", "binary", None, Some("BINARY_ADD"), "*"),
    Slot("__mul__", "sq_repeat", "indexargfunc", None, Some("BINARY_MULTIPLY"), "*"),
    Slot("__iadd__", "sq_inplace_concat", "binary", None, Some("INPLACE_ADD"), "*"),
    Slot("__imul__", "sq_inplace_repeat", "indexargfunc", None, Some("INPLACE_MUL"), "*"),
    Slot("__getitem__", "sq_item", "sq_item", None, Some("BINARY_SUBSCR"), "*"),
    Slot("__setitem__", "sq_ass_slice", "sq_ass_item", None, None, "*"),
    Slot("__delitem__", "sq_ass_item", "sq_delitem", None, None, "*"),
    Slot("__getslice__", "sq_slice", "sq_slice", None, None, "*"),
    Slot("__setslice__", "sq_ass_slice", "ssizessizeobjarg", None, None, "*"),
    Slot("__delslice__", "sq_ass_slice", "delslice", None, None, "*")
  >>

----------------------------------------------------------------------------
\* CompareOp and COMPARE_OPS

CompareOp(op, index, magic) == [op |-> op, index |-> index, magic |-> magic]

CMP_LT == 0
CMP_LE == 1
CMP_EQ == 2
CMP_NE == 3
CMP_GT == 4
CMP_GE == 5
CMP_IN == 6
CMP_NOT_IN == 7
CMP_IS == 8
CMP_IS_NOT == 9
CMP_EXC_MATCH == 9

COMPARE_OPS ==
  <<
    CompareOp("LT", CMP_LT, Some("__lt__")),
    CompareOp("LE", CMP_LE, Some("__le__")),
    CompareOp("EQ", CMP_EQ, Some("__eq__")),
    CompareOp("NE", CMP_NE, Some("__ne__")),
    CompareOp("GT", CMP_GT, Some("__gt__")),
    CompareOp("GE", CMP_GE, Some("__ge__")),
    CompareOp("IN", CMP_IN, None),
    CompareOp("NOT_IN", CMP_NOT_IN, None),
    CompareOp("IS", CMP_IS, None),
    CompareOp("IS_NOT", CMP_IS_NOT, None),
    CompareOp("EXC_MATCH", CMP_EXC_MATCH, None)
  >>

----------------------------------------------------------------------------
\* GetBinaryOperatorMapping: the dict comprehension
\*   {slot.opcode[len("BINARY_"):]: slot.python_name for slot in SLOTS if slot.opcode}

\* "if slot.opcode"
BinaryFilter_All(slot) == TRUE

BinaryFilter(slot) == Truthy(slot.opcode)

\* slot.opcode[len("BINARY_"):], for a slot whose opcode is a string
BinaryKey_Prefix(slot) == SubSeq(slot.opcode[1], 1, Len("BINARY_"))

BinaryKey(slot) == SliceFrom(slot.opcode[1], Len("BINARY_"))

\* The records the comprehension takes, by position in the list.
BinaryTaken(ss) == {i \in DOMAIN ss : BinaryFilter(ss[i])}

\* The comprehension takes the records in list order and a later record
\* overwrites an equal key, so each key holds the value of the last record that
\* yields it. Subscripting None raises TypeError and ends the comprehension.
BinaryComprehension(ss) ==
  IF \E i \in BinaryTaken(ss) : ss[i].opcode = None
  THEN [raised |-> TypeError, value |-> EmptyDict]
  ELSE [raised |-> NoException,
        value |-> [k \in {BinaryKey(ss[i]) : i \in BinaryTaken(ss)} |->
                     ss[Last({i \in BinaryTaken(ss) : BinaryKey(ss[i]) = k})].python_name]]

GetBinaryOperatorMapping(ss) == BinaryComprehension(ss)

----------------------------------------------------------------------------
\* GetCompareFunctionMapping: the dict comprehension
\*   {index: magic for op, index, magic in COMPARE_OPS if magic}

\* "if magic"
CompareFilter_IndexToo(rec) == Truthy(rec.magic) /\ rec.index # 0

CompareFilter(rec) == Truthy(rec.magic)

CompareTaken(cs) == {i \in DOMAIN cs : CompareFilter(cs[i])}

\* As above: each index holds the magic of the last record that yields it.
CompareComprehension(cs) ==
  [raised |-> NoException,
   value |-> [k \in {cs[i].index : i \in CompareTaken(cs)} |->
                cs[Last({i \in CompareTaken(cs) : cs[i].index = k})].magic[1]]]

GetCompareFunctionMapping(cs) == CompareComprehension(cs)

----------------------------------------------------------------------------
\* The program: calls of the two accessors, and the callers' use of the dicts
\* they were handed.

\* Whether a caller has changed a dict since it was returned: ret is the
\* history of an accessor and heap its dict objects.
Changed(ret, heap) ==
  \E n \in DOMAIN ret :
    ret[n].ref \in DOMAIN heap /\ heap[ret[n].ref] # ret[n].value

\* The record of one return: the exception raised (NoException for a normal
\* return), the heap object returned, its contents at the return, and whether
\* a dict returned earlier by the same accessor had been changed by then.
Return(raised, ref, value, changed) ==
  [raised |-> raised, ref |-> ref, value |-> value, changed |-> changed]

Init ==
  /\ slots = SLOTS
  /\ compare_ops = COMPARE_OPS
  /\ binDicts = <<>>
  /\ cmpDicts = <<>>
  /\ binRet = <<>>
  /\ cmpRet = <<>>
  /\ nMut = 0

\* A variant that consumes the table it iterates, as an iterator would be.
CallGetBinaryOperatorMapping_Consume ==
  /\ Len(binRet) < MaxCalls
  /\ LET r == GetBinaryOperatorMapping(slots) IN
       /\ binDicts' = Append(binDicts, r.value)
       /\ binRet' = Append(binRet, Return(r.raised, Len(binDicts) + 1, r.value,
                                          Changed(binRet, binDicts)))
  /\ slots' = <<>>
  /\ UNCHANGED <<compare_ops, cmpDicts, cmpRet, nMut>>

\* One call of GetBinaryOperatorMapping(): builds a new dict and returns it.
CallGetBinaryOperatorMapping ==
  /\ Len(binRet) < MaxCalls
  /\ LET r == GetBinaryOperatorMapping(slots) IN
       IF r.raised = NoException
       THEN /\ binDicts' = Append(binDicts, r.value)
            /\ binRet' = Append(binRet, Return(NoException, Len(binDicts) + 1, r.value,
                                               Changed(binRet, binDicts)))
       ELSE /\ binDicts' = binDicts
            /\ binRet' = Append(binRet, Return(r.raised, 0, EmptyDict,
                                               Changed(binRet, binDicts)))
  /\ UNCHANGED <<slots, compare_ops, cmpDicts, cmpRet, nMut>>

\* A variant that keeps the dict of the first call and hands it out again.
CallGetCompareFunctionMapping_Cached ==
  /\ Len(cmpRet) < MaxCalls
  /\ IF cmpDicts = <<>>
     THEN LET r == GetCompareFunctionMapping(compare_ops) IN
            /\ cmpDicts' = Append(cmpDicts, r.value)
            /\ cmpRet' = Append(cmpRet, Return(r.raised, 1, r.value,
                                               Changed(cmpRet, cmpDicts)))
     ELSE /\ cmpDicts' = cmpDicts
          /\ cmpRet' = Append(cmpRet, Return(NoException, 1, cmpDicts[1],
                                             Changed(cmpRet, cmpDicts)))
  /\ UNCHANGED <<slots, compare_ops, binDicts, binRet, nMut>>

\* One call of GetCompareFunctionMapping(): builds a new dict and returns it.
CallGetCompareFunctionMapping ==
  /\ Len(cmpRet) < MaxCalls
  /\ LET r == GetCompareFunctionMapping(compare_ops) IN
       IF r.raised = NoException
       THEN /\ cmpDicts' = Append(cmpDicts, r.value)
            /\ cmpRet' = Append(cmpRet, Return(NoException, Len(cmpDicts) + 1, r.value,
                                               Changed(cmpRet, cmpDicts)))
       ELSE /\ cmpDicts' = cmpDicts
            /\ cmpRet' = Append(cmpRet, Return(r.raised, 0, EmptyDict,
                                               Changed(cmpRet, cmpDicts)))
  /\ UNCHANGED <<slots, compare_ops, binDicts, binRet, nMut>>

\* What a caller writes into a dict it was handed.
CallerBinKeys == {"ADD", "NEW"}
CallerCmpKeys == {CMP_LT, CMP_IN}
CallerValue == "__caller__"

\* The caller stores under a key of a dict returned by GetBinaryOperatorMapping().
CallerSetBinItem ==
  /\ nMut < MaxMutations
  /\ \E d \in DOMAIN binDicts : \E k \in CallerBinKeys :
       binDicts' = [binDicts EXCEPT ![d] = SetItem(@, k, CallerValue)]
  /\ nMut' = nMut + 1
  /\ UNCHANGED <<slots, compare_ops, cmpDicts, binRet, cmpRet>>

\* The caller deletes a key of a dict returned by GetBinaryOperatorMapping().
CallerDelBinItem ==
  /\ nMut < MaxMutations
  /\ \E d \in DOMAIN binDicts : \E k \in CallerBinKeys \cap DOMAIN binDicts[d] :
       binDicts' = [binDicts EXCEPT ![d] = DelItem(@, k)]
  /\ nMut' = nMut + 1
  /\ UNCHANGED <<slots, compare_ops, cmpDicts, binRet, cmpRet>>

\* The caller stores under a key of a dict returned by GetCompareFunctionMapping().
CallerSetCmpItem ==
  /\ nMut < MaxMutations
  /\ \E d \in DOMAIN cmpDicts : \E k \in CallerCmpKeys :
       cmpDicts' = [cmpDicts EXCEPT ![d] = SetItem(@, k, CallerValue)]
  /\ nMut' = nMut + 1
  /\ UNCHANGED <<slots, compare_ops, binDicts, binRet, cmpRet>>

\* The caller deletes a key of a dict returned by GetCompareFunctionMapping().
CallerDelCmpItem ==
  /\ nMut < MaxMutations
  /\ \E d \in DOMAIN cmpDicts : \E k \in CallerCmpKeys \cap DOMAIN cmpDicts[d] :
       cmpDicts' = [cmpDicts EXCEPT ![d] = DelItem(@, k)]
  /\ nMut' = nMut + 1
  /\ UNCHANGED <<slots, compare_ops, binDicts, binRet, cmpRet>>

Next ==
  \/ CallGetBinaryOperatorMapping
  \/ CallGetCompareFunctionMapping
  \/ CallerSetBinItem
  \/ CallerDelBinItem
  \/ CallerSetCmpItem
  \/ CallerDelCmpItem

Spec == Init /\ [][Next]_vars

----------------------------------------------------------------------------
\* GetBinaryOperatorMapping() as a function of the order of the records: the
\* list is the source's table with two records exchanged, or reversed, and the
\* accessor is called on it.

Swap(ss, i, j) == [ss EXCEPT ![i] = ss[j], ![j] = ss[i]]

Reverse(ss) == [i \in 1..Len(ss) |-> ss[Len(ss) + 1 - i]]

PermutedTables ==
  {Swap(SLOTS, i, j) : i, j \in DOMAIN SLOTS} \cup {Reverse(SLOTS)}

InitPerm ==
  /\ slots \in PermutedTables
  /\ compare_ops = COMPARE_OPS
  /\ binDicts = <<>>
  /\ cmpDicts = <<>>
  /\ binRet = <<>>
  /\ cmpRet = <<>>
  /\ nMut = 0

NextPerm == CallGetBinaryOperatorMapping

SpecPerm == InitPerm /\ [][NextPerm]_vars

----------------------------------------------------------------------------
\* Properties.

\* The records that declare an opcode, by position.
Declared(ss) == {i \in DOMAIN ss : ss[i].opcode # None}

StartsWith(s, p) == Len(s) >= Len(p) /\ SubSeq(s, 1, Len(p)) = p

\* s without the prefix p, when it has it.
RemovePrefix(s, p) == IF StartsWith(s, p) THEN SliceFrom(s, Len(p)) ELSE s

\* C1: every mapping returned by GetBinaryOperatorMapping() has as its keys
\* exactly the declared opcodes with the "BINARY_" prefix removed, and maps
\* each such key to the python_name of the record that declares the opcode.
C1_KeysAreOpcodesWithoutPrefix ==
  \A n \in DOMAIN binRet :
    LET m == binRet[n].value IN
      /\ DOMAIN m = {RemovePrefix(slots[i].opcode[1], "BINARY_") : i \in Declared(slots)}
      /\ \A i \in Declared(slots) :
           m[RemovePrefix(slots[i].opcode[1], "BINARY_")] = slots[i].python_name

\* C2: every mapping returned by GetCompareFunctionMapping() maps the index of
\* each record that has a magic name to that name, every key of it is the index
\* of such a record, and the index of a record whose magic is None is no key.
C2_ExactlyRecordsWithMagic ==
  \A n \in DOMAIN cmpRet :
    LET m == cmpRet[n].value IN
      /\ \A i \in DOMAIN compare_ops :
           compare_ops[i].magic # None =>
             /\ compare_ops[i].index \in DOMAIN m
             /\ m[compare_ops[i].index] = compare_ops[i].magic[1]
      /\ \A k \in DOMAIN m :
           \E i \in DOMAIN compare_ops :
             compare_ops[i].magic # None /\ compare_ops[i].index = k
      /\ \A i \in DOMAIN compare_ops :
           compare_ops[i].magic = None => compare_ops[i].index \notin DOMAIN m

C2_Witness ==
  /\ cmpRet # <<>>
  /\ CMP_LT \in DOMAIN cmpRet[1].value
  /\ \E i \in DOMAIN compare_ops : compare_ops[i].magic = None
  /\ binRet # <<>>

\* C3: whatever calls and caller mutations came before, every return of an
\* accessor equals the first return of the same accessor.
C3_SameAsFirstCall ==
  /\ \A n \in DOMAIN binRet :
       binRet[n].raised = binRet[1].raised /\ binRet[n].value = binRet[1].value
  /\ \A n \in DOMAIN cmpRet :
       cmpRet[n].raised = cmpRet[1].raised /\ cmpRet[n].value = cmpRet[1].value

C3_Witness ==
  /\ Len(binRet) >= 2
  /\ Len(cmpRet) >= 2
  /\ binRet[2].value = binRet[1].value

\* What C4 asks of the last return in history ret2, the heap of its accessor
\* going from heap to heap2 and the history before being ret: a normal return
\* hands out an object that did not exist before, leaves the existing objects
\* as they were, and holds what the first call returned.
FreshReturn(ret, ret2, heap, heap2) ==
  Len(ret2) > Len(ret) =>
    LET r == ret2[Len(ret2)] IN
      r.raised = NoException =>
        /\ r.ref \notin DOMAIN heap
        /\ r.ref \in DOMAIN heap2
        /\ heap2[r.ref] = r.value
        /\ \A d \in DOMAIN heap : heap2[d] = heap[d]
        /\ ret # <<>> => r.value = ret[1].value

\* C4: no step changes SLOTS or COMPARE_OPS, and every call returns a newly
\* built mapping, equal to the first one returned, whatever the callers did
\* to the mappings returned before.
C4_NoSideEffects ==
  [][/\ slots' = slots
     /\ compare_ops' = compare_ops
     /\ FreshReturn(binRet, binRet', binDicts, binDicts')
     /\ FreshReturn(cmpRet, cmpRet', cmpDicts, cmpDicts')
     /\ Len(binRet') > Len(binRet) => cmpDicts' = cmpDicts
     /\ Len(cmpRet') > Len(cmpRet) => binDicts' = binDicts]_vars

C4_Witness ==
  /\ Len(binRet) >= 2
  /\ Len(cmpRet) >= 2
  /\ binRet[2].changed
  /\ cmpRet[2].changed
  /\ binRet[2].value = binRet[1].value
  /\ cmpRet[2].value = cmpRet[1].value
  /\ slots = SLOTS

\* C5: python_name and c_name of every record of SLOTS are non-empty strings.
C5_NamesNonEmpty ==
  \A i \in DOMAIN slots :
    /\ slots[i].python_name \in STRING /\ Len(slots[i].python_name) > 0
    /\ slots[i].c_name \in STRING /\ Len(slots[i].c_name) > 0

C5_Witness ==
  /\ Len(slots) > 1
  /\ binRet # <<>>
  /\ \E i \in DOMAIN slots : slots[i].c_name = "nb_add"

\* C6: records of SLOTS with different python_name and the same c_name each
\* have index 0 or 1, and their index values differ.
C6_SharedSlotsAreIndexed ==
  \A i, j \in DOMAIN slots :
    (slots[i].c_name = slots[j].c_name /\ slots[i].python_name # slots[j].python_name) =>
      /\ slots[i].index \in {Some(0), Some(1)}
      /\ slots[j].index \in {Some(0), Some(1)}
      /\ slots[i].index # slots[j].index

\* C7: no call of either accessor raises: every call returns a mapping.
C7_NeverRaises ==
  /\ \A n \in DOMAIN binRet :
       binRet[n].raised = NoException /\ binRet[n].ref \in DOMAIN binDicts
  /\ \A n \in DOMAIN cmpRet :
       cmpRet[n].raised = NoException /\ cmpRet[n].ref \in DOMAIN cmpDicts

C7_Witness ==
  /\ binRet # <<>>
  /\ cmpRet # <<>>
  /\ \E i \in DOMAIN slots : slots[i].opcode = None
  /\ \E i \in Declared(slots) : ~StartsWith(slots[i].opcode[1], "BINARY_")
  /\ \E i \in DOMAIN compare_ops : compare_ops[i].magic = None

\* C8: for every key k of a mapping returned by GetBinaryOperatorMapping(),
\* "BINARY_" followed by k is the opcode of a record of SLOTS whose python_name
\* is the value under k; and every declared opcode begins with "BINARY_".
C8_KeyRoundTrip ==
  /\ \A n \in DOMAIN binRet :
       \A k \in DOMAIN binRet[n].value :
         \E i \in Declared(slots) :
           /\ slots[i].opcode[1] = "BINARY_" \o k
           /\ slots[i].python_name = binRet[n].value[k]
  /\ binRet # <<>> =>
       \A i \in Declared(slots) : StartsWith(slots[i].opcode[1], "BINARY_")

\* C9: two records of the table that yield the same key have the same
\* python_name, and the mapping returned for the table in any of the orders
\* tried is the mapping of the table in the source's order.
C9_SameKeySameName ==
  /\ \A i, j \in BinaryTaken(slots) :
       BinaryKey(slots[i]) = BinaryKey(slots[j]) =>
         slots[i].python_name = slots[j].python_name
  /\ \A n \in DOMAIN binRet :
       /\ binRet[n].raised = NoException
       /\ binRet[n].value = GetBinaryOperatorMapping(SLOTS).value

C9_Witness ==
  /\ binRet # <<>>
  /\ \E i, j \in BinaryTaken(slots) :
       /\ i < j
       /\ BinaryKey(slots[i]) = BinaryKey(slots[j])
       /\ slots[i].c_name = "sq_concat"
       /\ slots[j].c_name = "nb_add"

\* C10: no two records of COMPARE_OPS have the same index.
C10_DistinctIndices ==
  \A i, j \in DOMAIN compare_ops :
    i # j => compare_ops[i].index # compare_ops[j].index

====
